---- MODULE Spec2Model ----
(***************************************************************************)
(* A model of rust-license-tool (src/src/main.rs): the dependency filter,  *)
(* the package rewriting, the record reducer, the drift check and the      *)
(* atomic write of LICENSE-3rdparty.csv.                                   *)
(*                                                                         *)
(* Strings are sequences of one-character strings, so that suffix and      *)
(* prefix stripping, splitting and ordering are computed, not assumed.     *)
(* Option<T> is modelled by the empty tuple (None) or a 1-tuple (Some(x)).  *)
(***************************************************************************)
EXTENDS Integers, Sequences, FiniteSets, TLC

VARIABLES
    pc,         \* position of the running operation
    url,        \* SpecStrip: the input of strip_git
    stripped,   \* SpecStrip: the successive results of strip_git
    resolve,    \* SpecFilter: metadata.resolve, [root, nodes]
    packages,   \* SpecFilter: metadata.packages, a Vec<Package>
    filtered,   \* SpecFilter: the HashSet<PackageId> filter_deps returns
    pkgs,       \* build_everything's Vec<Package>, from lookup_deps on
    records,    \* the Vec<Record> build_records returns
    overrides,  \* config.overrides, from override key to Override
    result,     \* "Running", then what main returns: "Ok" or "Err"
    dest,       \* the file LICENSE-3rdparty.csv: None, or Some(its rows)
    dest_before,\* the file LICENSE-3rdparty.csv as the run found it
    temp,       \* the file LICENSE-3rdparty.csv.tmp.<pid>: None, or Some(its rows)
    buffer,     \* write: the rows the csv::Writer holds and has not written
    next,       \* write and check: the index of the next record of the loop
    current,    \* check: the HashSet<Record> read from the file
    errors,     \* check: the flag errors
    stdout      \* check: the lines printed

stripVars == <<url, stripped>>
filterVars == <<resolve, packages, filtered>>
buildVars == <<pkgs, records, overrides, result>>
fileVars == <<dest, dest_before, temp, buffer, next>>
checkVars == <<current, errors, stdout>>
vars == <<pc, url, stripped, resolve, packages, filtered, pkgs, records,
          overrides, result, dest, dest_before, temp, buffer, next,
          current, errors, stdout>>

None == <<>>
Some(x) == <<x>>
IsSome(o) == o # None
Unwrap(o) == o[1]

(***************************************************************************)
(* Bounds of the model.                                                    *)
(***************************************************************************)
MaxUrlLen == 5
NumNodes == 3
MaxPackages == 3
MaxRawPackages == 2
MaxRecords == 2

(***************************************************************************)
(* Strings.                                                                *)
(***************************************************************************)
\* The characters used, in byte order (str's Ord compares bytes).
Alphabet == <<" ", "+", "-", ".", "/", "?", "A", "I", "M", "O", "R", "T",
              "a", "c", "g", "h", "i", "p", "r", "s", "t", "u", "x", "y">>

CharOrd(ch) == CHOOSE i \in 1..Len(Alphabet) : Alphabet[i] = ch

StringsUpTo(chars, n) == UNION {[1..k -> chars] : k \in 0..n}

ends_with(s, suffix) ==
    /\ Len(suffix) <= Len(s)
    /\ SubSeq(s, Len(s) - Len(suffix) + 1, Len(s)) = suffix

starts_with(s, prefix) ==
    /\ Len(prefix) <= Len(s)
    /\ SubSeq(s, 1, Len(prefix)) = prefix

\* str::strip_suffix: Some(s without the suffix) or None.
str_strip_suffix(s, suffix) ==
    IF ends_with(s, suffix) THEN Some(SubSeq(s, 1, Len(s) - Len(suffix))) ELSE None

\* str::strip_prefix: Some(s without the prefix) or None.
str_strip_prefix(s, prefix) ==
    IF starts_with(s, prefix) THEN Some(SubSeq(s, Len(prefix) + 1, Len(s))) ELSE None

GIT_SUFFIX == <<".", "g", "i", "t">>
SLASH == <<"/">>

\* A strip_suffix that cuts Len(suffix) characters without looking at them.
strip_suffix_unchecked(s, suffix) ==
    IF Len(suffix) <= Len(s) THEN SubSeq(s, 1, Len(s) - Len(suffix)) ELSE s

\* strip_suffix(s, suffix): s.strip_suffix(suffix).unwrap_or(s)
strip_suffix(s, suffix) ==
    IF IsSome(str_strip_suffix(s, suffix)) THEN Unwrap(str_strip_suffix(s, suffix))
    ELSE s

strip_git(s) == strip_suffix(strip_suffix(s, GIT_SUFFIX), SLASH)

(***************************************************************************)
(* The metadata normalizer: Override::fixup, rewrite_package and           *)
(* rewrite_packages.                                                       *)
(***************************************************************************)
\* Override::fixup
fixup(opts, package) ==
    LET licensed == IF IsSome(opts.license)
                    THEN [package EXCEPT !.license = Some(Unwrap(opts.license))]
                    ELSE package
    IN  IF IsSome(opts.origin)
        THEN [licensed EXCEPT !.repository = Some(Unwrap(opts.origin))]
        ELSE licensed

\* str::find(ch): the index of the first ch (from 1), or None.
str_find(s, ch) ==
    LET at == {i \in DOMAIN s : s[i] = ch} IN
    IF at = {} THEN None ELSE Some(CHOOSE i \in at : \A j \in at : i <= j)

GIT_PREFIX == <<"g", "i", "t", "+">>

\* overrides.get(name).or_else(|| overrides.get(package.name))
override_for(package, table) ==
    LET name == package.name \o <<"-">> \o package.version IN
    IF name \in DOMAIN table THEN Some(table[name])
    ELSE IF package.name \in DOMAIN table THEN Some(table[package.name])
    ELSE None

\* A rewrite_package that does not look at the license.
rewrite_package_license_unchecked(package, table) ==
    LET opts == override_for(package, table)
        fixed == IF IsSome(opts) THEN fixup(Unwrap(opts), package) ELSE package
        git == IF IsSome(fixed.source)
               THEN str_strip_prefix(Unwrap(fixed.source), GIT_PREFIX) ELSE None
        base == IF IsSome(git)
                THEN (IF IsSome(str_find(Unwrap(git), "?"))
                      THEN SubSeq(Unwrap(git), 1, Unwrap(str_find(Unwrap(git), "?")) - 1)
                      ELSE Unwrap(git))
                ELSE <<>>
    IN  IF fixed.source = None THEN [package |-> fixed, error |-> FALSE]
        ELSE IF IsSome(fixed.repository)
        THEN [package |-> [fixed EXCEPT !.repository = Some(strip_git(Unwrap(@)))],
              error |-> FALSE]
        ELSE IF IsSome(git)
        THEN [package |-> [fixed EXCEPT !.repository = Some(strip_git(base))],
              error |-> FALSE]
        ELSE IF IsSome(fixed.homepage)
        THEN [package |-> [fixed EXCEPT !.repository = fixed.homepage], error |-> FALSE]
        ELSE [package |-> fixed, error |-> TRUE]

\* rewrite_package: the package as it leaves it, and the bool it returns.
rewrite_package(package, table) ==
    LET opts == override_for(package, table)
        fixed == IF IsSome(opts) THEN fixup(Unwrap(opts), package) ELSE package
        git == IF IsSome(fixed.source)
               THEN str_strip_prefix(Unwrap(fixed.source), GIT_PREFIX) ELSE None
        base == IF IsSome(git)
                THEN (IF IsSome(str_find(Unwrap(git), "?"))
                      THEN SubSeq(Unwrap(git), 1, Unwrap(str_find(Unwrap(git), "?")) - 1)
                      ELSE Unwrap(git))
                ELSE <<>>
        licensed(p) == [package |-> p, error |-> p.license = None]
    IN  IF fixed.source = None THEN [package |-> fixed, error |-> FALSE]
        ELSE IF IsSome(fixed.repository)
        THEN licensed([fixed EXCEPT !.repository = Some(strip_git(Unwrap(@)))])
        ELSE IF IsSome(git)
        THEN licensed([fixed EXCEPT !.repository = Some(strip_git(base))])
        ELSE IF IsSome(fixed.homepage)
        THEN licensed([fixed EXCEPT !.repository = fixed.homepage])
        ELSE [package |-> fixed, error |-> TRUE]

\* rewrite_packages: the fold over every package (`|` does not short-circuit);
\* the packages as it leaves them, and whether it returns Err.
rewrite_packages(package_list, table) ==
    [packages |-> [i \in DOMAIN package_list |->
                      rewrite_package(package_list[i], table).package],
     errors   |-> \E i \in DOMAIN package_list :
                      rewrite_package(package_list[i], table).error]

(***************************************************************************)
(* The dependency graph: filter_deps and lookup_deps.                      *)
(***************************************************************************)
Nodes == 1..NumNodes

\* The permutations of a finite set: the orders in which a HashSet or the
\* keys of a HashMap may be iterated.
Perms(S) ==
    {f \in [1..Cardinality(S) -> S] : \A i, j \in DOMAIN f : f[i] = f[j] => i = j}

\* An is_normal_dep that asks every kind of the edge to be Normal.
is_normal_dep_all(kinds) == \A i \in DOMAIN kinds : kinds[i] = "Normal"

is_normal_dep(kinds) == \E i \in DOMAIN kinds : kinds[i] = "Normal"

RECURSIVE filter_node_deps_rec(_, _, _)
RECURSIVE filter_node_deps_loop(_, _, _, _)

\* The loop of filter_node_deps_rec over root.deps, from its i-th element on.
filter_node_deps_loop(edges, i, deps, acc) ==
    IF i > Len(edges) THEN acc
    ELSE LET node == edges[i] IN
         IF is_normal_dep(node.dep_kinds)
         THEN filter_node_deps_loop(edges, i + 1, deps,
                  filter_node_deps_rec(node.pkg, deps, acc \cup {node.pkg}))
         ELSE filter_node_deps_loop(edges, i + 1, deps, acc)

filter_node_deps_rec(node, deps, acc) ==
    LET root == deps[node] IN filter_node_deps_loop(root.deps, 1, deps, acc)

RECURSIVE filter_keys_loop(_, _, _, _)
\* The loop of filter_deps_rec over deps.keys(), taken in the order keys.
filter_keys_loop(keys, i, deps, acc) ==
    IF i > Len(keys) THEN acc
    ELSE filter_keys_loop(keys, i + 1, deps,
                          filter_node_deps_rec(keys[i], deps, acc))

filter_deps_rec(node, deps, acc, keys) ==
    IF IsSome(node) THEN filter_node_deps_rec(Unwrap(node), deps, acc)
    ELSE filter_keys_loop(keys, 1, deps, acc)

\* The HashMap from each node's id to the node.
NodeMap(nodes) ==
    [id \in {nodes[i].id : i \in DOMAIN nodes} |->
        CHOOSE n \in {nodes[i] : i \in DOMAIN nodes} : n.id = id]

\* filter_deps; keys is the order in which the HashMap yields its keys.
filter_deps(res, keys) ==
    filter_deps_rec(res.root, NodeMap(res.nodes), {}, keys)

\* A lookup_deps that keeps the packages without a source.
lookup_deps_unfiltered(package_ids, package_list) ==
    [i \in DOMAIN package_ids |->
        CHOOSE p \in {package_list[k] : k \in DOMAIN package_list} : p.id = package_ids[i]]

\* lookup_deps; package_ids is the HashSet in the order it is iterated.
lookup_deps(package_ids, package_list) ==
    LET found == [i \in DOMAIN package_ids |->
                    CHOOSE p \in {package_list[k] : k \in DOMAIN package_list} : p.id = package_ids[i]]
    IN  SelectSeq(found, LAMBDA p : IsSome(p.source))

(***************************************************************************)
(* SpecFilter: a resolved acyclic graph and its package list are filtered  *)
(* and looked up.                                                          *)
(***************************************************************************)
REGISTRY == <<"r">>

\* The kinds an edge may carry (DepKindInfo.kind of each of its dep_kinds).
DepKindChoices ==
    {<<"Normal">>, <<"Build", "Development">>, <<"Development", "Normal">>}

\* Edges go from a lower to a higher id: the graph is acyclic.
EdgeSlots == {e \in Nodes \X Nodes : e[1] < e[2]}

\* node n's deps, in ascending order of the dependency's id.
NodeDepsOf(n, kinds) ==
    LET edge(j) == IF <<n, j>> \in EdgeSlots THEN kinds[<<n, j>>] ELSE None
        present == SelectSeq([j \in Nodes |-> j], LAMBDA j : IsSome(edge(j)))
    IN  [i \in DOMAIN present |->
            [pkg |-> present[i], dep_kinds |-> Unwrap(edge(present[i]))]]

FilterIdle ==
    /\ resolve = None
    /\ packages = <<>>
    /\ filtered = {}

BuildIdle ==
    /\ pkgs = <<>>
    /\ records = <<>>
    /\ overrides = <<>>
    /\ result = "Running"

CommandIdle ==
    /\ dest = None
    /\ dest_before = None
    /\ temp = None
    /\ buffer = <<>>
    /\ next = 1
    /\ current = {}
    /\ errors = FALSE
    /\ stdout = <<>>

InitFilter ==
    /\ pc = "filter_deps"
    /\ \E kinds \in [EdgeSlots -> {Some(k) : k \in DepKindChoices} \cup {None}],
          r \in {Some(n) : n \in Nodes} \cup {None} :
          resolve = [root |-> r,
                     nodes |-> [n \in Nodes |-> [id |-> n, deps |-> NodeDepsOf(n, kinds)]]]
    /\ \E src \in [Nodes -> {None, Some(REGISTRY)}] :
          packages = [n \in Nodes |-> [id |-> n, source |-> src[n]]]
    /\ filtered = {}
    /\ pkgs = <<>>
    /\ records = <<>>
    /\ overrides = <<>>
    /\ result = "Running"
    /\ url = <<>>
    /\ stripped = <<>>
    /\ CommandIdle

FilterDeps ==
    /\ pc = "filter_deps"
    /\ IF IsSome(resolve.root)
       THEN filtered' = filter_deps(resolve, <<>>)
       ELSE \E keys \in Perms(Nodes) : filtered' = filter_deps(resolve, keys)
    /\ pc' = "lookup_deps"
    /\ UNCHANGED <<resolve, packages, buildVars, stripVars, fileVars, checkVars>>

LookupDeps ==
    /\ pc = "lookup_deps"
    /\ \E ids \in Perms(filtered) : pkgs' = lookup_deps(ids, packages)
    /\ pc' = "rewrite_packages"
    /\ UNCHANGED <<resolve, packages, filtered, records, overrides, result,
                   stripVars, fileVars, checkVars>>

NextFilter == FilterDeps \/ LookupDeps

SpecFilter == InitFilter /\ [][NextFilter]_vars

\* The graph as a relation, read off resolve.nodes without the filter's code.
HasEdge(a, b) ==
    \E i \in DOMAIN resolve.nodes[a].deps : resolve.nodes[a].deps[i].pkg = b

NormalEdge(a, b) ==
    \E i \in DOMAIN resolve.nodes[a].deps :
        /\ resolve.nodes[a].deps[i].pkg = b
        /\ "Normal" \in {resolve.nodes[a].deps[i].dep_kinds[k] :
                            k \in DOMAIN resolve.nodes[a].deps[i].dep_kinds}

NormalSuccessors(S) == {b \in Nodes : \E a \in S : NormalEdge(a, b)}

\* The nodes reached from S by a path of one or more Normal edges.
NormalReach(S) ==
    LET R[k \in 0..NumNodes] ==
            IF k = 0 THEN NormalSuccessors(S)
            ELSE LET prev == R[k - 1] IN prev \cup NormalSuccessors(prev)
    IN  R[NumNodes]

\* The nodes no edge of any kind leads to.
TopLevel == {n \in Nodes : \A a \in Nodes : ~HasEdge(a, n)}

Roots == IF IsSome(resolve.root) THEN {Unwrap(resolve.root)} ELSE TopLevel

IsLocal(n) == \E k \in DOMAIN packages : packages[k].id = n /\ packages[k].source = None

LookedIds == {pkgs[i].id : i \in DOMAIN pkgs}

\* C1: with an explicit root, filter_deps returns exactly the packages reached
\* from the root by a path of one or more edges that all carry Normal.
C1_ExactNormalReach ==
    (pc = "lookup_deps" /\ IsSome(resolve.root))
        => filtered = NormalReach({Unwrap(resolve.root)})

\* C1 witness: filter_deps ran from an explicit root and kept a package the
\* root also reaches by an edge that carries no Normal, beside another one.
C1_Witness ==
    /\ pc = "lookup_deps"
    /\ IsSome(resolve.root)
    /\ Cardinality(filtered) >= 2
    /\ \E p \in filtered :
          HasEdge(Unwrap(resolve.root), p) /\ ~NormalEdge(Unwrap(resolve.root), p)

\* C2 (as claimed): without a root, only what the top-level nodes reach by
\* all-Normal paths is returned; the Normal dependencies of a package that is
\* only a dev- or build-dependency are absent.
C2_OnlyFromTopLevel ==
    (pc = "lookup_deps" /\ resolve.root = None)
        => filtered \subseteq NormalReach(TopLevel)

\* C3: no local package is in the list lookup_deps returns, and every
\* non-local package reached from a root by an all-Normal path is in it, also
\* when the path passes through local packages.
C3_LocalsExcludedEdgesFollowed ==
    pc = "rewrite_packages" =>
        /\ \A i \in DOMAIN pkgs : IsSome(pkgs[i].source)
        /\ \A p \in NormalReach(Roots) : ~IsLocal(p) => p \in LookedIds

\* C3 witness: a local package was reached by a Normal edge, is not in the
\* list, and a non-local package that only it leads to is in the list.
C3_Witness ==
    /\ pc = "rewrite_packages"
    /\ \E l \in filtered, p \in LookedIds :
          /\ IsLocal(l)
          /\ l \notin LookedIds
          /\ NormalEdge(l, p)
          /\ \A a \in Nodes \ {l} : ~NormalEdge(a, p)

(***************************************************************************)
(* SpecStrip: strip_git applied to a URL, and again to its result.         *)
(***************************************************************************)
StripChars == {"a", "/", ".", "g", "i", "t"}

InitStrip ==
    /\ pc = "strip"
    /\ url \in StringsUpTo(StripChars, MaxUrlLen)
    /\ stripped = <<>>
    /\ FilterIdle
    /\ BuildIdle
    /\ CommandIdle

StripGit ==
    /\ pc = "strip"
    /\ Len(stripped) < 2
    /\ stripped' = Append(stripped,
                          strip_git(IF stripped = <<>> THEN url
                                    ELSE stripped[Len(stripped)]))
    /\ UNCHANGED <<pc, url, filterVars, buildVars, fileVars, checkVars>>

NextStrip == StripGit

SpecStrip == InitStrip /\ [][NextStrip]_vars

\* A URL with no trailing `.git` and no trailing `/`.
Canonical(u) == ~ends_with(u, GIT_SUFFIX) /\ ~ends_with(u, SLASH)

\* C10 (as claimed): strip_git is idempotent on every URL, and returns a URL
\* with no trailing `.git` or `/` unchanged.
C10_Idempotent ==
    /\ (Len(stripped) >= 1 /\ Canonical(url)) => stripped[1] = url
    /\ Len(stripped) = 2 => stripped[2] = stripped[1]

\* C10 (amended): strip_git returns a URL with no trailing `.git` or `/`
\* unchanged; so a second strip_git changes nothing whenever the first result
\* has no trailing `.git` or `/`.
C10_CanonicalUnchanged ==
    /\ (Len(stripped) >= 1 /\ Canonical(url)) => stripped[1] = url
    /\ (Len(stripped) = 2 /\ Canonical(stripped[1])) => stripped[2] = stripped[1]

\* C10 witness: a URL ending in `.git` was stripped to a URL with no trailing
\* `.git` or `/`, and stripped again.
C10_Witness ==
    /\ Len(stripped) = 2
    /\ ends_with(url, GIT_SUFFIX)
    /\ stripped[1] # url
    /\ stripped[1] # <<>>
    /\ Canonical(stripped[1])

(***************************************************************************)
(* The record reducer: package_to_record, collect_record_sets,             *)
(* reduce_names and build_records.                                         *)
(***************************************************************************)
RECURSIVE str_replace(_, _, _)
\* str::replace(ch, with) for a one-character pattern.
str_replace(s, ch, with) ==
    IF s = <<>> THEN <<>>
    ELSE (IF Head(s) = ch THEN with ELSE <<Head(s)>>) \o str_replace(Tail(s), ch, with)

\* str::rsplit_once(ch): the parts before and after the last ch, or None.
rsplit_once(s, ch) ==
    LET at == {i \in DOMAIN s : s[i] = ch} IN
    IF at = {} THEN None
    ELSE LET last == CHOOSE i \in at : \A j \in at : j <= i
         IN  Some(<<SubSeq(s, 1, last - 1), SubSeq(s, last + 1, Len(s))>>)

\* The order of str: bytewise lexicographic.
StrLess(a, b) ==
    \E i \in 1..Len(b) :
        /\ i - 1 <= Len(a)
        /\ \A j \in 1..(i - 1) : a[j] = b[j]
        /\ (Len(a) = i - 1 \/ CharOrd(a[i]) < CharOrd(b[i]))

\* The derived Ord of Record: component, origin, license, copyright in turn.
RecordLess(r1, r2) ==
    \/ StrLess(r1.component, r2.component)
    \/ /\ r1.component = r2.component
       /\ \/ StrLess(r1.origin, r2.origin)
          \/ /\ r1.origin = r2.origin
             /\ \/ StrLess(r1.license, r2.license)
                \/ /\ r1.license = r2.license
                   /\ StrLess(r1.copyright, r2.copyright)

RECURSIVE sort(_)
\* Vec::sort: a stable sort, here by insertion.
sort(v) ==
    IF v = <<>> THEN <<>>
    ELSE LET rest == sort(SubSeq(v, 1, Len(v) - 1))
             x == v[Len(v)]
             before == SelectSeq(rest, LAMBDA r : ~RecordLess(x, r))
             after == SelectSeq(rest, LAMBDA r : RecordLess(x, r))
         IN  before \o <<x>> \o after

LICENSE_SEPARATOR == <<" ", "O", "R", " ">>

\* package_to_record unwraps three Options and panics on a None.
package_to_record_panics(package) ==
    \/ package.repository = None
    \/ package.license = None
    \/ package.metadata = None

package_to_record(package) ==
    [component |-> package.name,
     origin    |-> Unwrap(package.repository),
     license   |-> str_replace(Unwrap(package.license), "/", LICENSE_SEPARATOR),
     copyright |-> Unwrap(package.metadata)]

\* A RecordSet (HashMap<Record, HashSet<PackageName>>) is a function from its
\* keys to their sets of names.
RECURSIVE collect_record_sets_loop(_, _, _)
collect_record_sets_loop(recs, i, intermediate) ==
    IF i > Len(recs) THEN intermediate
    ELSE LET record == recs[i]
             name == record.component
         IN  collect_record_sets_loop(recs, i + 1,
                 [key \in DOMAIN intermediate \cup {record} |->
                     IF key = record
                     THEN (IF record \in DOMAIN intermediate
                           THEN intermediate[record] ELSE {}) \cup {name}
                     ELSE intermediate[key]])

collect_record_sets(recs) == collect_record_sets_loop(recs, 1, <<>>)

\* package_name wraps a string that is already the name of a package.
package_name(name) == name

\* The order in which a HashSet of names is iterated: any one.
IterNames(names) == CHOOSE order \in Perms(names) : TRUE

reduce_names(record, names) ==
    IF Cardinality(names) = 1
    THEN <<[record EXCEPT !.component = CHOOSE n \in names : TRUE]>>
    ELSE LET split == rsplit_once(record.origin, "/")
             suffix == Unwrap(split)[2]
             no_rust == str_strip_prefix(suffix, <<"r", "u", "s", "t", "-">>)
             no_rs == str_strip_suffix(suffix, <<"-", "r", "s">>)
             all == [i \in 1..Cardinality(names) |->
                        [record EXCEPT !.component = IterNames(names)[i]]]
         IN  IF split = None THEN all
             ELSE IF suffix \in names
                  THEN <<[record EXCEPT !.component = package_name(suffix)]>>
             ELSE IF IsSome(no_rust) /\ Unwrap(no_rust) \in names
                  THEN <<[record EXCEPT !.component = package_name(Unwrap(no_rust))]>>
             ELSE IF IsSome(no_rs) /\ Unwrap(no_rs) \in names
                  THEN <<[record EXCEPT !.component = package_name(Unwrap(no_rs))]>>
             ELSE all

RECURSIVE flat_map_reduce_names(_, _, _)
\* The flat_map of reduce_names over the RecordSet, its keys taken in the order keys.
flat_map_reduce_names(intermediate, keys, i) ==
    IF i > Len(keys) THEN <<>>
    ELSE reduce_names(keys[i], intermediate[keys[i]])
             \o flat_map_reduce_names(intermediate, keys, i + 1)

\* A build_records that leaves the records in the order of the HashMap.
build_records_unsorted(package_list, keys) ==
    LET recs == [i \in DOMAIN package_list |-> package_to_record(package_list[i])]
    IN  flat_map_reduce_names(collect_record_sets(recs), keys, 1)

\* build_records; keys is the order in which the RecordSet yields its keys.
build_records(package_list, keys) ==
    LET recs == [i \in DOMAIN package_list |-> package_to_record(package_list[i])]
    IN  sort(flat_map_reduce_names(collect_record_sets(recs), keys, 1))

\* The keys of the RecordSet build_records collects from package_list.
RecordSetKeys(package_list) ==
    DOMAIN collect_record_sets(
        [i \in DOMAIN package_list |-> package_to_record(package_list[i])])

(***************************************************************************)
(* SpecRecords: build_records on a list of normalized packages.            *)
(***************************************************************************)
NAME_X == <<"x">>
NAME_X_RS == <<"x", "-", "r", "s">>
NAME_Y == <<"y">>
RecordNames == {NAME_X, NAME_X_RS, NAME_Y}

ORIGIN_X == <<"h", "/", "x">>
ORIGIN_RUST_Y == <<"h", "/", "r", "u", "s", "t", "-", "y">>
ORIGIN_Y_RS == <<"h", "/", "y", "-", "r", "s">>
RecordOrigins == {ORIGIN_X, ORIGIN_RUST_Y, ORIGIN_Y_RS}

LICENSE_MIT == <<"M", "I", "T">>
LICENSE_MIT_A == <<"M", "I", "T", "/", "A">>

COPYRIGHT_C == <<"c">>

\* The packages build_records is given: repository, license and copyright set.
NormalizedPackages ==
    {[id |-> 0, name |-> n, version |-> <<"1">>, source |-> Some(REGISTRY),
      repository |-> Some(o), homepage |-> None, license |-> Some(LICENSE_MIT_A),
      metadata |-> Some(COPYRIGHT_C)] :
        n \in RecordNames, o \in RecordOrigins}

InitRecords ==
    /\ pc = "build_records"
    /\ pkgs \in UNION {[1..k -> NormalizedPackages] : k \in 0..MaxPackages}
    /\ records = <<>>
    /\ overrides = <<>>
    /\ result = "Running"
    /\ FilterIdle
    /\ CommandIdle
    /\ url = <<>>
    /\ stripped = <<>>

BuildRecords ==
    /\ pc = "build_records"
    /\ IF \E i \in DOMAIN pkgs : package_to_record_panics(pkgs[i])
       THEN pc' = "panic" /\ UNCHANGED <<records, result>>
       ELSE /\ \E keys \in Perms(RecordSetKeys(pkgs)) :
                  records' = build_records(pkgs, keys)
            /\ result' = "Ok"
            /\ pc' = "done"
    /\ UNCHANGED <<pkgs, overrides, filterVars, stripVars, fileVars, checkVars>>

NextRecords == BuildRecords

SpecRecords == InitRecords /\ [][NextRecords]_vars

\* The names of the packages that yield the origin, license and copyright of r.
GroupNames(r) ==
    {pkgs[i].name : i \in {k \in DOMAIN pkgs :
        /\ package_to_record(pkgs[k]).origin = r.origin
        /\ package_to_record(pkgs[k]).license = r.license
        /\ package_to_record(pkgs[k]).copyright = r.copyright}}

RecordsOfGroup(r) ==
    {i \in DOMAIN records :
        /\ records[i].origin = r.origin
        /\ records[i].license = r.license
        /\ records[i].copyright = r.copyright}

\* The last path segment of an origin that holds a `/`.
LastSegment(origin) ==
    LET at == {i \in DOMAIN origin : origin[i] = "/"}
    IN  SubSeq(origin, (CHOOSE i \in at : \A j \in at : j <= i) + 1, Len(origin))

\* The name the three rules pick for a group, tried in order, or None.
MatchedName(origin, names) ==
    IF "/" \notin {origin[i] : i \in DOMAIN origin} THEN None
    ELSE LET seg == LastSegment(origin) IN
         IF seg \in names THEN Some(seg)
         ELSE IF \E n \in names : <<"r", "u", "s", "t", "-">> \o n = seg
              THEN Some(CHOOSE n \in names : <<"r", "u", "s", "t", "-">> \o n = seg)
         ELSE IF \E n \in names : n \o <<"-", "r", "s">> = seg
              THEN Some(CHOOSE n \in names : n \o <<"-", "r", "s">> = seg)
         ELSE None

\* C4 (as claimed): packages that share origin, license and copyright under
\* two or more names form one group, and when a rule matches one of the names
\* the output holds exactly one record for the group, carrying that name.
C4_GroupCollapsesToMatchedName ==
    pc = "done" =>
        \A k \in DOMAIN pkgs :
            LET r == package_to_record(pkgs[k])
                names == GroupNames(r)
                matched == MatchedName(r.origin, names)
            IN  (Cardinality(names) >= 2 /\ IsSome(matched)) =>
                    /\ Cardinality(RecordsOfGroup(r)) = 1
                    /\ \A i \in RecordsOfGroup(r) : records[i].component = Unwrap(matched)

\* C5: build_records returns no two records equal in all four fields, in
\* non-decreasing order of component name.
C5_NoDuplicatesSorted ==
    pc = "done" =>
        /\ \A i, j \in DOMAIN records : records[i] = records[j] => i = j
        /\ \A i, j \in DOMAIN records :
              i < j => ~StrLess(records[j].component, records[i].component)

\* C5 witness: build_records was given two packages that yield the same
\* record and a third, first in the list, whose name sorts after theirs.
C5_Witness ==
    /\ pc = "done"
    /\ Len(pkgs) = 3
    /\ package_to_record(pkgs[2]) = package_to_record(pkgs[3])
    /\ StrLess(pkgs[2].name, pkgs[1].name)
    /\ Len(records) = 2

(***************************************************************************)
(* SpecBuild: build_everything from lookup_deps on: the packages are       *)
(* looked up, rewritten, named, given a copyright and turned into records. *)
(***************************************************************************)
SOURCE_GIT == <<"g", "i", "t", "+", "h", "/", "x", ".", "g", "i", "t", "?", "r">>
REPO_X_GIT == <<"h", "/", "x", ".", "g", "i", "t">>
HOMEPAGE == <<"p">>

RawNames == {NAME_X, NAME_Y}
\* A package's source, repository and homepage: a local package, a registry
\* package with each shape of repository and homepage, a git package with and
\* without a repository.
RawOrigins ==
    {<<None, None, None>>,
     <<Some(REGISTRY), None, None>>,
     <<Some(REGISTRY), None, Some(HOMEPAGE)>>,
     <<Some(REGISTRY), Some(REPO_X_GIT), None>>,
     <<Some(REGISTRY), Some(SLASH), None>>,
     <<Some(SOURCE_GIT), None, None>>,
     <<Some(SOURCE_GIT), Some(REPO_X_GIT), Some(HOMEPAGE)>>}
RawLicenses == {None, Some(LICENSE_MIT_A)}

RawPackages(n) ==
    {[id |-> n, name |-> name, version |-> <<"1">>, source |-> o[1],
      repository |-> o[2], homepage |-> o[3], license |-> lic,
      metadata |-> None] :
        name \in RawNames, o \in RawOrigins, lic \in RawLicenses}

\* The override tables: none, one keyed by name-version, one keyed by name.
OverrideTables ==
    {<<>>,
     (NAME_X \o <<"-", "1">>) :> [license |-> Some(LICENSE_MIT), origin |-> None],
     NAME_X :> [license |-> None, origin |-> Some(ORIGIN_X \o SLASH)]}

InitBuild ==
    /\ pc = "lookup_deps"
    /\ resolve = None
    /\ \E k \in 1..MaxRawPackages :
          /\ packages \in {p \in [1..k -> UNION {RawPackages(n) : n \in 1..k}] :
                              \A i \in 1..k : p[i].id = i}
          /\ filtered = 1..k
    /\ overrides \in OverrideTables
    /\ pkgs = <<>>
    /\ records = <<>>
    /\ result = "Running"
    /\ url = <<>>
    /\ stripped = <<>>
    /\ CommandIdle

RewritePackages ==
    /\ pc = "rewrite_packages"
    /\ LET out == rewrite_packages(pkgs, overrides) IN
          /\ pkgs' = out.packages
          /\ IF out.errors
             THEN result' = "Err" /\ pc' = "failed"
             ELSE result' = result /\ pc' = "fixup_names"
    /\ UNCHANGED <<records, overrides, filterVars, stripVars, fileVars, checkVars>>

\* fixup_names: each package takes the name its own manifest declares (the
\* name it has, but for one package at most), or a manifest cannot be read or
\* parsed.
FixupNames ==
    /\ pc = "fixup_names"
    /\ \/ /\ \/ pkgs' = pkgs
             \/ \E i \in DOMAIN pkgs, n \in RawNames :
                   pkgs' = [pkgs EXCEPT ![i].name = n]
          /\ pc' = "lookup_all_copyrights"
          /\ UNCHANGED result
       \/ /\ pkgs # <<>>
          /\ result' = "Err"
          /\ pc' = "failed"
          /\ UNCHANGED pkgs
    /\ UNCHANGED <<records, overrides, filterVars, stripVars, fileVars, checkVars>>

\* lookup_all_copyrights: each package's metadata takes the copyright found,
\* or a file cannot be read.
LookupAllCopyrights ==
    /\ pc = "lookup_all_copyrights"
    /\ \/ /\ pkgs' = [i \in DOMAIN pkgs |-> [pkgs[i] EXCEPT !.metadata = Some(COPYRIGHT_C)]]
          /\ pc' = "build_records"
          /\ UNCHANGED result
       \/ /\ pkgs # <<>>
          /\ result' = "Err"
          /\ pc' = "failed"
          /\ UNCHANGED pkgs
    /\ UNCHANGED <<records, overrides, filterVars, stripVars, fileVars, checkVars>>

NextBuild ==
    \/ LookupDeps
    \/ RewritePackages
    \/ FixupNames
    \/ LookupAllCopyrights
    \/ BuildRecords

SpecBuild == InitBuild /\ [][NextBuild]_vars

\* rewrite_packages has returned Ok.
Rewritten == pc \in {"fixup_names", "lookup_all_copyrights", "build_records", "done"}

\* The override the table holds for a package, read without rewrite_package's code.
OverrideOf(p) ==
    IF (p.name \o <<"-">> \o p.version) \in DOMAIN overrides
    THEN overrides[p.name \o <<"-">> \o p.version]
    ELSE IF p.name \in DOMAIN overrides THEN overrides[p.name]
    ELSE [license |-> None, origin |-> None]

\* A non-local package that normalization leaves without an origin or a license.
LacksOriginOrLicense(p) ==
    /\ IsSome(p.source)
    /\ \/ /\ OverrideOf(p).origin = None
          /\ p.repository = None
          /\ ~starts_with(Unwrap(p.source), GIT_PREFIX)
          /\ p.homepage = None
       \/ OverrideOf(p).license = None /\ p.license = None

\* C6 (as claimed): every package that reaches record synthesis has a
\* non-empty origin string and a non-empty license string; a package without
\* them makes rewrite_packages fail, and no record is produced.
C6_NonEmptyOriginAndLicense ==
    /\ Rewritten =>
          /\ \A i \in DOMAIN pkgs :
                /\ IsSome(pkgs[i].repository) /\ Unwrap(pkgs[i].repository) # <<>>
                /\ IsSome(pkgs[i].license) /\ Unwrap(pkgs[i].license) # <<>>
          /\ \A i \in DOMAIN packages : ~LacksOriginOrLicense(packages[i])
    /\ result = "Err" => records = <<>>

\* C6 (amended): every package that reaches record synthesis has an origin
\* and a license that are present (Some), possibly the empty string; a
\* non-local package that would end normalization without one of them makes
\* rewrite_packages fail, and no record is produced for any package.
C6_OriginAndLicensePresent ==
    /\ Rewritten =>
          /\ \A i \in DOMAIN pkgs :
                IsSome(pkgs[i].repository) /\ IsSome(pkgs[i].license)
          /\ \A i \in DOMAIN packages : ~LacksOriginOrLicense(packages[i])
    /\ result = "Err" => records = <<>>
    /\ pc # "panic"

\* C6 witness: two packages were rewritten and turned into records, one of
\* them licensed only by its override.
C6_Witness ==
    /\ pc = "done"
    /\ Len(records) = 2
    /\ \E i \in DOMAIN packages :
          /\ IsSome(packages[i].source)
          /\ packages[i].license = None
          /\ packages[i].repository = None

(***************************************************************************)
(* The table file: output_table writes a header row and one row a record;  *)
(* csv::Reader takes the first row as the header and yields the others.    *)
(***************************************************************************)
HEADER == [component |-> <<"Component">>, origin |-> <<"Origin">>,
           license |-> <<"License">>, copyright |-> <<"Copyright">>]

\* The rows output_table writes for a list of records: the header is written
\* with the first record, so no record gives an empty file.
Table(recs) == IF recs = <<>> THEN <<>> ELSE <<HEADER>> \o recs

\* The HashSet<Record> collected from the rows of the file.
ParseTable(rows) == {rows[i] : i \in 2..Len(rows)}

\* The records a run may have built: sorted, without duplicates.
LICENSE_MIT_OR_A == <<"M", "I", "T", " ", "O", "R", " ", "A">>

RecordUniverse ==
    {[component |-> n, origin |-> ORIGIN_X, license |-> l, copyright |-> COPYRIGHT_C] :
        n \in {NAME_X, NAME_Y}, l \in {LICENSE_MIT, LICENSE_MIT_OR_A}}

BuiltRecordLists ==
    {sort(CHOOSE order \in Perms(S) : TRUE) :
        S \in {T \in SUBSET RecordUniverse : Cardinality(T) <= MaxRecords}}

(***************************************************************************)
(* SpecCheck: Commands::check on the records built and the file found.     *)
(***************************************************************************)
InitCheck ==
    /\ pc = "check_open"
    /\ records \in BuiltRecordLists
    /\ dest \in {None} \cup {Some(Table(sort(CHOOSE order \in Perms(S) : TRUE))) :
                                S \in SUBSET RecordUniverse}
    /\ dest_before = dest
    /\ temp = None
    /\ buffer = <<>>
    /\ next = 1
    /\ current = {}
    /\ errors = FALSE
    /\ stdout = <<>>
    /\ result = "Running"
    /\ pkgs = <<>>
    /\ overrides = <<>>
    /\ FilterIdle
    /\ url = <<>>
    /\ stripped = <<>>

\* File::open and the collect of the rows: a missing file is the empty set,
\* any other failure returns the error.
CheckOpen ==
    /\ pc = "check_open"
    /\ \/ /\ dest = None
          /\ current' = {}
          /\ pc' = "check_records"
          /\ UNCHANGED result
       \/ /\ IsSome(dest)
          /\ current' = ParseTable(Unwrap(dest))
          /\ pc' = "check_records"
          /\ UNCHANGED result
       \/ /\ IsSome(dest)
          /\ result' = "Err"
          /\ pc' = "failed"
          /\ UNCHANGED current
    /\ UNCHANGED <<errors, stdout, records, pkgs, overrides, fileVars, filterVars, stripVars>>

\* A loop body that leaves the loop at the first record not found.
CheckRecordStopEarly ==
    /\ pc = "check_records"
    /\ next <= Len(records)
    /\ IF records[next] \in current
       THEN /\ current' = current \ {records[next]}
            /\ next' = next + 1
            /\ UNCHANGED <<stdout, errors>>
       ELSE /\ stdout' = Append(stdout, [kind |-> "missing or changed",
                                         component |-> records[next].component])
            /\ errors' = TRUE
            /\ next' = Len(records) + 1
            /\ UNCHANGED current
    /\ UNCHANGED <<pc, result, records, pkgs, overrides, dest, dest_before, temp,
                   buffer, filterVars, stripVars>>

\* One turn of `for record in records`.
CheckRecord ==
    /\ pc = "check_records"
    /\ next <= Len(records)
    /\ IF records[next] \in current
       THEN /\ current' = current \ {records[next]}
            /\ UNCHANGED <<stdout, errors>>
       ELSE /\ stdout' = Append(stdout, [kind |-> "missing or changed",
                                         component |-> records[next].component])
            /\ errors' = TRUE
            /\ UNCHANGED current
    /\ next' = next + 1
    /\ UNCHANGED <<pc, result, records, pkgs, overrides, dest, dest_before, temp,
                   buffer, filterVars, stripVars>>

\* A check that never looks at what is left of current.
CheckExtraneousSkipped ==
    /\ pc = "check_records"
    /\ next > Len(records)
    /\ pc' = "check_return"
    /\ UNCHANGED <<stdout, errors, current, result, records, pkgs, overrides,
                   fileVars, filterVars, stripVars>>

\* `if !errors && !current.is_empty()` and its loop, which prints the records
\* left in current in the order the HashSet yields them.
CheckExtraneous ==
    /\ pc = "check_records"
    /\ next > Len(records)
    /\ IF ~errors /\ current # {}
       THEN /\ \E order \in Perms(current) :
                  stdout' = stdout \o [i \in DOMAIN order |->
                                [kind |-> "extraneous", component |-> order[i].component]]
            /\ errors' = TRUE
       ELSE UNCHANGED <<stdout, errors>>
    /\ pc' = "check_return"
    /\ UNCHANGED <<current, result, records, pkgs, overrides, fileVars,
                   filterVars, stripVars>>

CheckReturn ==
    /\ pc = "check_return"
    /\ result' = IF errors THEN "Err" ELSE "Ok"
    /\ pc' = "done"
    /\ UNCHANGED <<current, errors, stdout, records, pkgs, overrides, fileVars,
                   filterVars, stripVars>>

NextCheck == CheckOpen \/ CheckRecord \/ CheckExtraneous \/ CheckReturn

SpecCheck == InitCheck /\ [][NextCheck]_vars

\* The persisted set, the fresh records it does not hold and the persisted
\* records no fresh record equals, read off the file and the list.
Persisted == IF dest = None THEN {} ELSE ParseTable(Unwrap(dest))

FreshSet == {records[i] : i \in DOMAIN records}

FreshUnmatched == {i \in DOMAIN records : records[i] \notin Persisted}

Unconsumed == Persisted \ FreshSet

Printed(kind, component) ==
    Cardinality({i \in DOMAIN stdout :
                    stdout[i] = [kind |-> kind, component |-> component]})

Components == {r.component : r \in RecordUniverse}

EveryUnmatchedReported ==
    \A c \in Components :
        Printed("missing or changed", c)
            = Cardinality({i \in FreshUnmatched : records[i].component = c})

EveryUnconsumedReported ==
    \A c \in Components :
        Printed("extraneous", c) = Cardinality({r \in Unconsumed : r.component = c})

\* C7 (as claimed): every fresh record without an exact match is reported
\* missing or changed, and every persisted record left unconsumed is reported
\* extraneous, also when a fresh record was reported.
C7_EveryMismatchReported ==
    pc = "done" => EveryUnmatchedReported /\ EveryUnconsumedReported

\* C7 (amended): every fresh record without an exact match is reported
\* missing or changed; the persisted records left unconsumed are each reported
\* extraneous when no fresh record was reported, and none of them is reported
\* when one was.
C7_ExtraneousOnlyWithoutMissing ==
    pc = "done" =>
        /\ EveryUnmatchedReported
        /\ IF FreshUnmatched = {} THEN EveryUnconsumedReported
           ELSE \A c \in Components : Printed("extraneous", c) = 0

\* C7 witness: a check ended with two fresh records reported missing or
\* changed and a persisted record left unconsumed.
C7_Witness ==
    /\ pc = "done"
    /\ Cardinality(FreshUnmatched) = 2
    /\ Unconsumed # {}
    /\ Len(stdout) = 2

\* C8: check returns Ok exactly when the fresh records and the persisted
\* records are the same set (a missing file is the empty set); an identical
\* pair prints nothing, and one persisted record more than the fresh list
\* gives Err with exactly one extraneous line.
C8_OkIffSetsEqual ==
    pc = "done" =>
        /\ result = "Ok" <=> FreshSet = Persisted
        /\ FreshSet = Persisted => stdout = <<>>
        /\ (FreshUnmatched = {} /\ Cardinality(Unconsumed) = 1) =>
              /\ result = "Err"
              /\ stdout = <<[kind |-> "extraneous",
                             component |-> (CHOOSE r \in Unconsumed : TRUE).component]>>

\* C8 witness: a check of a non-empty fresh list against a file that holds
\* one record more ended Err with one line printed.
C8_Witness ==
    /\ pc = "done"
    /\ result = "Err"
    /\ records # <<>>
    /\ FreshUnmatched = {}
    /\ Cardinality(Unconsumed) = 1
    /\ Len(stdout) = 1

(***************************************************************************)
(* SpecWrite: main with Commands::write, which any step may fail and the   *)
(* process may be killed at any point.                                     *)
(***************************************************************************)
InitWrite ==
    /\ pc = "build_everything"
    /\ records = <<>>
    /\ dest \in {None} \cup {Some(Table(l)) : l \in BuiltRecordLists}
    /\ dest_before = dest
    /\ temp \in {None, Some(<<HEADER>>)}
    /\ buffer = <<>>
    /\ next = 1
    /\ current = {}
    /\ errors = FALSE
    /\ stdout = <<>>
    /\ result = "Running"
    /\ pkgs = <<>>
    /\ overrides = <<>>
    /\ FilterIdle
    /\ url = <<>>
    /\ stripped = <<>>

\* build_everything(..)?: the records, or the error main returns.
BuildEverything ==
    /\ pc = "build_everything"
    /\ \/ /\ records' \in BuiltRecordLists
          /\ pc' = "write_create"
          /\ UNCHANGED result
       \/ /\ result' = "Err"
          /\ pc' = "failed"
          /\ UNCHANGED records
    /\ UNCHANGED <<pkgs, overrides, fileVars, checkVars, filterVars, stripVars>>

\* A write that creates the destination file itself.
WriteCreateInPlace ==
    /\ pc = "write_create"
    /\ dest' = Some(<<>>)
    /\ temp' = Some(<<>>)
    /\ pc' = "output_table"
    /\ UNCHANGED <<result, dest_before, buffer, next, records, pkgs, overrides,
                   checkVars, filterVars, stripVars>>

\* File::create(&temp_filename): the file exists and is empty, or an error.
WriteCreate ==
    /\ pc = "write_create"
    /\ \/ /\ temp' = Some(<<>>)
          /\ pc' = "output_table"
          /\ UNCHANGED result
       \/ /\ result' = "Err"
          /\ pc' = "failed"
          /\ UNCHANGED temp
    /\ UNCHANGED <<dest, dest_before, buffer, next, records, pkgs, overrides,
                   checkVars, filterVars, stripVars>>

\* csv.serialize(record)?: the row (after the header, for the first record)
\* goes to the writer's buffer; on an error output_table returns and the
\* writer, dropped, writes what it can of its buffer.
WriteSerialize ==
    /\ pc = "output_table"
    /\ next <= Len(records)
    /\ \/ /\ buffer' = buffer \o (IF next = 1 THEN <<HEADER>> ELSE <<>>)
                              \o <<records[next]>>
          /\ next' = next + 1
          /\ UNCHANGED <<temp, pc, result>>
       \/ /\ \E k \in 0..Len(buffer) :
                temp' = Some(Unwrap(temp) \o SubSeq(buffer, 1, k))
          /\ buffer' = <<>>
          /\ result' = "Err"
          /\ pc' = "failed"
          /\ UNCHANGED next
    /\ UNCHANGED <<dest, dest_before, records, pkgs, overrides, checkVars,
                   filterVars, stripVars>>

\* The writer's buffer is full: its rows are written to the file.
WriterSpill ==
    /\ pc = "output_table"
    /\ buffer # <<>>
    /\ temp' = Some(Unwrap(temp) \o buffer)
    /\ buffer' = <<>>
    /\ UNCHANGED <<pc, result, dest, dest_before, next, records, pkgs, overrides,
                   checkVars, filterVars, stripVars>>

\* csv.flush(): the buffer is written to the file, or an error.
WriteFlush ==
    /\ pc = "output_table"
    /\ next > Len(records)
    /\ \/ /\ temp' = Some(Unwrap(temp) \o buffer)
          /\ buffer' = <<>>
          /\ pc' = "rename"
          /\ UNCHANGED result
       \/ /\ \E k \in 0..Len(buffer) :
                temp' = Some(Unwrap(temp) \o SubSeq(buffer, 1, k))
          /\ buffer' = <<>>
          /\ result' = "Err"
          /\ pc' = "failed"
    /\ UNCHANGED <<dest, dest_before, next, records, pkgs, overrides, checkVars,
                   filterVars, stripVars>>

\* fs::rename(&temp_filename, DEST_FILENAME): the destination becomes the
\* temporary file in one step, or an error.
WriteRename ==
    /\ pc = "rename"
    /\ \/ /\ dest' = temp
          /\ temp' = None
          /\ result' = "Ok"
          /\ pc' = "done"
       \/ /\ result' = "Err"
          /\ pc' = "failed"
          /\ UNCHANGED <<dest, temp>>
    /\ UNCHANGED <<dest_before, buffer, next, records, pkgs, overrides, checkVars,
                   filterVars, stripVars>>

\* The process is killed: the files stay as they are.
Interrupt ==
    /\ pc \in {"build_everything", "write_create", "output_table", "rename"}
    /\ pc' = "killed"
    /\ UNCHANGED <<result, records, pkgs, overrides, fileVars, checkVars,
                   filterVars, stripVars>>

NextWrite ==
    \/ BuildEverything
    \/ WriteCreate
    \/ WriteSerialize
    \/ WriterSpill
    \/ WriteFlush
    \/ WriteRename
    \/ Interrupt

SpecWrite == InitWrite /\ [][NextWrite]_vars

\* C9: at every point of a write run the destination file is as the run
\* found it (absent included) or holds the complete new table; it is replaced
\* only by the rename, when every record is in the temporary file.
C9_DestOldOrComplete ==
    /\ \/ dest = dest_before
       \/ /\ pc = "done"
          /\ result = "Ok"
          /\ dest = Some(Table(records))
    /\ pc = "rename" => temp = Some(Table(records))

\* C9 witness: a run failed or was killed with the temporary file partly
\* written, the destination file being there.
C9_Witness ==
    /\ pc \in {"failed", "killed"}
    /\ IsSome(dest)
    /\ IsSome(temp)
    /\ Unwrap(temp) # <<>>
    /\ Len(Unwrap(temp)) < Len(Table(records))

====
